---------------------------- MODULE Spec2Model ----------------------------
(***************************************************************************)
(* Authentication and authorization context resolution of the backend      *)
(* (src/backend/server.py): JWTHandler, UserContext, get_current_user and  *)
(* the organization members / invite handlers that depend on it.           *)
(*                                                                         *)
(* Three specifications share the module:                                  *)
(*   SpecEval   the UserContext query methods as pure functions of a       *)
(*              snapshot drawn from a bounded set;                         *)
(*   SpecToken  JWTHandler.decode_token as a pure function of a token      *)
(*              drawn from a bounded set;                                  *)
(*   Spec       concurrent requests running get_current_user and a         *)
(*              handler against the shared store, one store round trip     *)
(*              per step.                                                  *)
(***************************************************************************)
EXTENDS Naturals, Sequences, FiniteSets, TLC

VARIABLES
    ctx,                       \* SpecEval: the UserContext being queried
    query,                     \* SpecEval: the last query and its answer
    token,                     \* SpecToken: the token handed to decode_token
    decoded,                   \* SpecToken: what decode_token did with it
    organization_memberships,  \* Spec: rows of the organization_memberships table
    organizations,             \* Spec: rows of the organizations table
    req                        \* Spec: the requests in flight

vars == <<ctx, query, token, decoded, organization_memberships, organizations, req>>

\* Python's None, where a record (a row, a payload, a model instance) is expected
None == [ none |-> TRUE ]

(***************************************************************************)
(* Bounds.                                                                 *)
(***************************************************************************)
MaxMemberships == 2    \* longest membership list of a SpecEval snapshot
MaxRows == 3           \* most rows the organization_memberships table holds
MaxOrgs == 2           \* most rows the organizations table holds

(***************************************************************************)
(* UserRole and the role hierarchy.                                        *)
(***************************************************************************)
UserRole ==
    { "saas_super_admin", "saas_admin", "saas_accountant",
      "organization_owner", "organization_admin", "organization_user" }

role_hierarchy_swapped ==
    [ organization_user |-> 1, organization_admin |-> 2, organization_owner |-> 4,
      saas_accountant |-> 3, saas_admin |-> 5, saas_super_admin |-> 6 ]

role_hierarchy ==
    [ organization_user |-> 1, organization_admin |-> 2, organization_owner |-> 3,
      saas_accountant |-> 4, saas_admin |-> 5, saas_super_admin |-> 6 ]

\* role_hierarchy.get(role, 0)
role_level(role) ==
    IF role \in DOMAIN role_hierarchy THEN role_hierarchy[role] ELSE 0

saas_roles_without_accountant == { "saas_admin", "saas_super_admin" }

saas_roles == { "saas_accountant", "saas_admin", "saas_super_admin" }

Orgs == { "o1", "o2" }

(***************************************************************************)
(* UserContext: the query methods, on the memberships list of a snapshot.  *)
(* A membership is [id, organization_id, role, is_active].                 *)
(***************************************************************************)
RECURSIVE last_match(_, _)
last_match(memberships, org_id) ==
    IF memberships = << >> THEN None
    ELSE LET m == memberships[Len(memberships)]
         IN IF m.organization_id = org_id /\ m.is_active
            THEN m
            ELSE last_match(SubSeq(memberships, 1, Len(memberships) - 1), org_id)

\* for membership in self.memberships: first match on organization and active flag
RECURSIVE get_membership_for_organization(_, _)
get_membership_for_organization(memberships, org_id) ==
    IF memberships = << >> THEN None
    ELSE LET m == Head(memberships)
         IN IF m.organization_id = org_id /\ m.is_active
            THEN m
            ELSE get_membership_for_organization(Tail(memberships), org_id)

has_saas_role_fallback(memberships, org_id, min_role) ==
    LET membership == get_membership_for_organization(memberships, org_id)
    IN IF membership = None
       THEN \E i \in 1..Len(memberships) : memberships[i].role \in saas_roles
       ELSE role_level(membership.role) >= role_level(min_role)

has_minimum_role_in_organization(memberships, org_id, min_role) ==
    LET membership == get_membership_for_organization(memberships, org_id)
    IN IF membership = None
       THEN FALSE
       ELSE role_level(membership.role) >= role_level(min_role)

has_saas_role(memberships) ==
    \E i \in 1..Len(memberships) : memberships[i].role \in saas_roles

(***************************************************************************)
(* SpecEval: a snapshot is drawn, then queries are evaluated on it.        *)
(***************************************************************************)
MembershipValues == [ organization_id : Orgs, role : UserRole, is_active : BOOLEAN ]

\* the rows of a snapshot carry the row ids "m1", "m2", ... in list order
RowIds == << "m1", "m2", "m3", "m4", "m5" >>

WithIds(values) ==
    [ i \in 1..Len(values) |->
        [ id |-> RowIds[i], organization_id |-> values[i].organization_id,
          role |-> values[i].role, is_active |-> values[i].is_active ] ]

MembershipLists ==
    UNION { { WithIds(v) : v \in [ 1..n -> MembershipValues ] } : n \in 0..MaxMemberships }

NoQuery == [ op |-> "none" ]

evalVars == <<ctx, query>>
tokenVars == <<token, decoded>>
storeVars == <<organization_memberships, organizations, req>>

InitEval ==
    /\ ctx \in [ memberships : MembershipLists ]
    /\ query = NoQuery
    /\ token = None
    /\ decoded = None
    /\ organization_memberships = << >>
    /\ organizations = << >>
    /\ req = << >>

CallGetMembership ==
    /\ \E org_id \in Orgs :
        query' = [ op |-> "get_membership_for_organization", org_id |-> org_id,
                   result |-> get_membership_for_organization(ctx.memberships, org_id) ]
    /\ UNCHANGED <<ctx, tokenVars, storeVars>>

CallHasMinimumRole ==
    /\ \E org_id \in Orgs, min_role \in UserRole :
        query' = [ op |-> "has_minimum_role_in_organization", org_id |-> org_id,
                   min_role |-> min_role,
                   result |-> has_minimum_role_in_organization(ctx.memberships, org_id, min_role) ]
    /\ UNCHANGED <<ctx, tokenVars, storeVars>>

CallHasSaasRole ==
    /\ query' = [ op |-> "has_saas_role", result |-> has_saas_role(ctx.memberships) ]
    /\ UNCHANGED <<ctx, tokenVars, storeVars>>

NextEval ==
    \/ CallGetMembership
    \/ CallHasMinimumRole
    \/ CallHasSaasRole

SpecEval == InitEval /\ [][NextEval]_vars

(***************************************************************************)
(* SpecUnknownRole: has_minimum_role_in_organization on snapshots and       *)
(* arguments whose roles need not be among the six of UserRole.            *)
(***************************************************************************)
UnknownRoles == { "guest", "visitor" }

AnyRole == UserRole \cup UnknownRoles

MembershipListsAnyRole ==
    UNION { { WithIds(v) : v \in [ 1..n -> [ organization_id : Orgs, role : AnyRole,
                                             is_active : BOOLEAN ] ] }
            : n \in 0..MaxMemberships }

InitUnknownRole ==
    /\ ctx \in [ memberships : MembershipListsAnyRole ]
    /\ query = NoQuery
    /\ token = None
    /\ decoded = None
    /\ organization_memberships = << >>
    /\ organizations = << >>
    /\ req = << >>

CallHasMinimumRoleAnyRole ==
    /\ \E org_id \in Orgs, min_role \in AnyRole :
        query' = [ op |-> "has_minimum_role_in_organization", org_id |-> org_id,
                   min_role |-> min_role,
                   result |-> has_minimum_role_in_organization(ctx.memberships, org_id, min_role) ]
    /\ UNCHANGED <<ctx, tokenVars, storeVars>>

NextUnknownRole == CallHasMinimumRoleAnyRole

SpecUnknownRole == InitUnknownRole /\ [][NextUnknownRole]_vars

(***************************************************************************)
(* Claims about the UserContext queries (checked under SpecEval).          *)
(***************************************************************************)
\* the six roles in the order the specification gives them, lowest first
RoleOrder ==
    << "organization_user", "organization_admin", "organization_owner",
       "saas_accountant", "saas_admin", "saas_super_admin" >>

Rank(role) == CHOOSE i \in 1..Len(RoleOrder) : RoleOrder[i] = role

PlatformRoles == { "saas_accountant", "saas_admin", "saas_super_admin" }

\* memberships[i] is for org_id and active
Matches(memberships, i, org_id) ==
    memberships[i].organization_id = org_id /\ memberships[i].is_active

\* memberships[i] is the earliest active membership for org_id
IsFirstMatch(memberships, i, org_id) ==
    /\ Matches(memberships, i, org_id)
    /\ \A j \in 1..(i - 1) : ~Matches(memberships, j, org_id)

\* C1 (as stated): whenever the snapshot holds an active membership with role
\* r1 in O, has_minimum_role_in_organization(O, r2) is true iff
\* rank(r1) >= rank(r2).
C1_AnyActiveMembershipDecides ==
    query.op = "has_minimum_role_in_organization" =>
        \A i \in 1..Len(ctx.memberships) :
            Matches(ctx.memberships, i, query.org_id) =>
                (query.result <=> Rank(ctx.memberships[i].role) >= Rank(query.min_role))

\* C1 (amended): when r1 is the role of the earliest active membership for O
\* in the snapshot's stored order, has_minimum_role_in_organization(O, r2) is
\* true iff rank(r1) >= rank(r2), for all six roles r1 and r2.
C1_FirstActiveMembershipDecides ==
    query.op = "has_minimum_role_in_organization" =>
        \A i \in 1..Len(ctx.memberships) :
            IsFirstMatch(ctx.memberships, i, query.org_id) =>
                (query.result <=> Rank(ctx.memberships[i].role) >= Rank(query.min_role))

\* a snapshot with two active memberships of different rank for O, queried
\* with a minimum role between the two
C1_Witness ==
    /\ query.op = "has_minimum_role_in_organization"
    /\ query.result
    /\ \E i, j \in 1..Len(ctx.memberships) :
        /\ i < j
        /\ IsFirstMatch(ctx.memberships, i, query.org_id)
        /\ Matches(ctx.memberships, j, query.org_id)
        /\ Rank(ctx.memberships[i].role) >= Rank(query.min_role)
        /\ Rank(ctx.memberships[j].role) < Rank(query.min_role)

\* C2: has_saas_role() is true iff at least one membership of the list,
\* whatever its organization, has a role in {saas_accountant, saas_admin,
\* saas_super_admin}; so it is false for an empty list and for a list of
\* organization-level roles only.
C2_HasSaasRoleIffPlatformMembership ==
    query.op = "has_saas_role" =>
        (query.result <=>
            \E i \in 1..Len(ctx.memberships) : ctx.memberships[i].role \in PlatformRoles)

\* an organization-level membership for o1 and a saas_accountant membership
\* attached to o2: the answer is true
C2_Witness ==
    /\ query.op = "has_saas_role"
    /\ query.result
    /\ Len(ctx.memberships) = 2
    /\ ctx.memberships[1].organization_id = "o1"
    /\ ctx.memberships[1].role = "organization_user"
    /\ ctx.memberships[2].organization_id = "o2"
    /\ ctx.memberships[2].role = "saas_accountant"

\* C3: when the snapshot holds no membership for O,
\* has_minimum_role_in_organization(O, role) is false for every role, also
\* when the identity holds a platform role in another organization.
C3_NoMembershipNoRole ==
    ( /\ query.op = "has_minimum_role_in_organization"
      /\ \A i \in 1..Len(ctx.memberships) :
            ctx.memberships[i].organization_id # query.org_id )
    => ~query.result

\* the query was answered for an organization without membership while the
\* identity is saas_super_admin elsewhere
C3_Witness ==
    /\ query.op = "has_minimum_role_in_organization"
    /\ query.min_role = "organization_user"
    /\ ~query.result
    /\ Len(ctx.memberships) > 0
    /\ \A i \in 1..Len(ctx.memberships) :
        /\ ctx.memberships[i].organization_id # query.org_id
        /\ ctx.memberships[i].is_active
        /\ ctx.memberships[i].role = "saas_super_admin"

\* C4: get_membership_for_organization(O) returns the earliest membership in
\* stored order whose organization_id is O and whose active flag is true, and
\* None when there is none.
C4_FirstActiveMatchWins ==
    query.op = "get_membership_for_organization" =>
        /\ \A i \in 1..Len(ctx.memberships) :
            IsFirstMatch(ctx.memberships, i, query.org_id) =>
                query.result = ctx.memberships[i]
        /\ (\A i \in 1..Len(ctx.memberships) : ~Matches(ctx.memberships, i, query.org_id))
            => query.result = None

\* two active memberships for O: the first one is returned
C4_Witness ==
    /\ query.op = "get_membership_for_organization"
    /\ Len(ctx.memberships) = 2
    /\ Matches(ctx.memberships, 1, query.org_id)
    /\ Matches(ctx.memberships, 2, query.org_id)
    /\ ctx.memberships[1].role # ctx.memberships[2].role
    /\ query.result = ctx.memberships[1]

\* C13 (checked under SpecUnknownRole): has_minimum_role_in_organization
\* answers without raising for roles outside the six, and when the membership
\* found for the organization has an unrecognized role the answer is false
\* for every min_role, recognized or not.
C13_UnknownRoleIsRefused ==
    query.op = "has_minimum_role_in_organization" =>
        /\ query.result \in BOOLEAN
        /\ \A i \in 1..Len(ctx.memberships) :
            ( /\ IsFirstMatch(ctx.memberships, i, query.org_id)
              /\ ctx.memberships[i].role \notin UserRole )
            => ~query.result

(***************************************************************************)
(* JWTHandler.  A token is what its issuer put into it: the key it was     *)
(* signed with, and the claims.  NoClaim stands for a claim that is absent *)
(* (payload.get returns None).                                             *)
(***************************************************************************)
NoClaim == "<absent>"

secret_key == "supabase_jwt_secret"
audience == "authenticated"

Subjects == { "u1", "u2", "u3" }
TokenEmail == "user@x.com"

Malformed == [ wellformed |-> FALSE ]

Tokens ==
    { Malformed } \cup
    [ wellformed : { TRUE },
      key : { secret_key, "other_secret" },
      aud : { audience, "other_audience", NoClaim },
      exp : { "future", "past", NoClaim },
      sub : Subjects \cup { "", NoClaim },
      email : { TokenEmail, "", NoClaim } ]

\* the exception classes of jwt.exceptions, each with its base classes
Bases(exception) ==
    CASE exception = "ExpiredSignatureError" ->
            { "ExpiredSignatureError", "InvalidTokenError", "PyJWTError" }
      [] exception = "InvalidAudienceError" ->
            { "InvalidAudienceError", "InvalidTokenError", "PyJWTError" }
      [] exception = "MissingRequiredClaimError" ->
            { "MissingRequiredClaimError", "InvalidTokenError", "PyJWTError" }
      [] exception = "InvalidSignatureError" ->
            { "InvalidSignatureError", "DecodeError", "InvalidTokenError", "PyJWTError" }
      [] exception = "DecodeError" ->
            { "DecodeError", "InvalidTokenError", "PyJWTError" }

Raise(exception) == [ ok |-> FALSE, exception |-> exception ]

\* jwt.decode(token, key, algorithms=["HS256"], audience=aud): the segments are
\* parsed, the signature is verified, then the claims are validated, the
\* expiry (when present) before the audience
jwt_decode(tok, key, aud) ==
    IF ~tok.wellformed THEN Raise("DecodeError")
    ELSE IF tok.key # key THEN Raise("InvalidSignatureError")
    ELSE IF tok.exp = "past" THEN Raise("ExpiredSignatureError")
    ELSE IF tok.aud = NoClaim THEN Raise("MissingRequiredClaimError")
    ELSE IF tok.aud # aud THEN Raise("InvalidAudienceError")
    ELSE [ ok |-> TRUE, payload |-> [ sub |-> tok.sub, email |-> tok.email ] ]

\* raise HTTPException(status_code, detail, headers={"WWW-Authenticate": "Bearer"}
\* when www_authenticate)
HTTPException(status_code, detail, www_authenticate) ==
    [ ok |-> FALSE, status_code |-> status_code, detail |-> detail,
      www_authenticate |-> www_authenticate ]

\* decode_token with the InvalidTokenError clause placed first
decode_token_invalid_first(tok) ==
    LET r == jwt_decode(tok, secret_key, audience)
    IN IF r.ok THEN r
       ELSE IF "InvalidTokenError" \in Bases(r.exception)
            THEN HTTPException(401, "Invalid authentication token", TRUE)
       ELSE IF "ExpiredSignatureError" \in Bases(r.exception)
            THEN HTTPException(401, "Token has expired", TRUE)
       ELSE HTTPException(401, "Could not validate credentials", TRUE)

\* decode_token with the InvalidTokenError clause matching DecodeError only
decode_token_decode_error_only(tok) ==
    LET r == jwt_decode(tok, secret_key, audience)
    IN IF r.ok THEN r
       ELSE IF "ExpiredSignatureError" \in Bases(r.exception)
            THEN HTTPException(401, "Token has expired", TRUE)
       ELSE IF "DecodeError" \in Bases(r.exception)
            THEN HTTPException(401, "Invalid authentication token", TRUE)
       ELSE HTTPException(401, "Could not validate credentials", TRUE)

\* the except clauses are tried in order; the first whose class is a base of
\* the raised exception handles it
decode_token(tok) ==
    LET r == jwt_decode(tok, secret_key, audience)
    IN IF r.ok THEN r
       ELSE IF "ExpiredSignatureError" \in Bases(r.exception)
            THEN HTTPException(401, "Token has expired", TRUE)
       ELSE IF "InvalidTokenError" \in Bases(r.exception)
            THEN HTTPException(401, "Invalid authentication token", TRUE)
       ELSE HTTPException(401, "Could not validate credentials", TRUE)

\* payload.get("sub"); `not user_id` holds for None and for ""
get_user_id(payload) ==
    IF payload.sub = NoClaim \/ payload.sub = ""
    THEN HTTPException(401, "Token does not contain user ID", FALSE)
    ELSE [ ok |-> TRUE, value |-> payload.sub ]

\* get_user_email accepting an empty email
get_user_email_none_only(payload) ==
    IF payload.email = NoClaim
    THEN HTTPException(401, "Token does not contain user email", FALSE)
    ELSE [ ok |-> TRUE, value |-> payload.email ]

get_user_email(payload) ==
    IF payload.email = NoClaim \/ payload.email = ""
    THEN HTTPException(401, "Token does not contain user email", FALSE)
    ELSE [ ok |-> TRUE, value |-> payload.email ]

(***************************************************************************)
(* The store (Supabase): the user_profiles rows, which this code only      *)
(* reads, and the organization_memberships rows, which invite appends to.  *)
(***************************************************************************)
user_profiles ==
    { [ id |-> "u1", email |-> "u1@x.com" ],
      [ id |-> "u2", email |-> "u2@x.com" ] }

MembershipRow(id, user_id, org_id, role, is_active, invited_by) ==
    [ id |-> id, user_id |-> user_id, organization_id |-> org_id, role |-> role,
      is_active |-> is_active, invited_by |-> invited_by ]

\* OrganizationMembership(**item), with the fields the queries read
OrganizationMembership(row) ==
    [ id |-> row.id, organization_id |-> row.organization_id,
      role |-> row.role, is_active |-> row.is_active ]

\* the memberships query without the is_active filter
select_all_memberships(rows, user_id) ==
    LET hit == SelectSeq(rows, LAMBDA row : row.user_id = user_id)
    IN [ i \in 1..Len(hit) |-> OrganizationMembership(hit[i]) ]

\* .eq("user_id", user_id).eq("is_active", True), in the order of the table
select_active_memberships(rows, user_id) ==
    LET hit == SelectSeq(rows, LAMBDA row : row.user_id = user_id /\ row.is_active)
    IN [ i \in 1..Len(hit) |-> OrganizationMembership(hit[i]) ]

\* .eq("user_id", user_id).eq("organization_id", org_id): active or not
select_existing(rows, user_id, org_id) ==
    SelectSeq(rows, LAMBDA row : row.user_id = user_id /\ row.organization_id = org_id)

(***************************************************************************)
(* Requests.  A request runs get_current_user (token verification, then    *)
(* the profile read, then the memberships read) and then its handler; each *)
(* step holds at most one round trip to the store, and the steps of        *)
(* concurrent requests interleave.  The dependency reads the credentials   *)
(* only, so the route and its parameters are drawn when the handler reads  *)
(* them.                                                                   *)
(***************************************************************************)
Reqs == { "r1", "r2" }

IdleReq ==
    [ pc |-> "idle", payload |-> None, profile |-> None, user |-> None,
      endpoint |-> "", org_id |-> "", invite |-> None, response |-> None,
      trace |-> << >>, ops |-> {}, log |-> {} ]

\* the store after u1 created o1; u2 may hold a deactivated membership
InitialStores ==
    { << MembershipRow("m1", "u1", "o1", "organization_owner", TRUE, "u1") >>,
      << MembershipRow("m1", "u1", "o1", "organization_owner", TRUE, "u1"),
         MembershipRow("m2", "u2", "o1", "organization_user", FALSE, "u1") >> }

\* a row of the organizations table, by the columns the handlers use
OrganizationRow(id, name) == [ id |-> id, name |-> name ]

\* the ids the store gives to the rows of the organizations table, in order
OrgIds == << "o1", "o2", "o3" >>

Init ==
    /\ organization_memberships \in InitialStores
    /\ organizations = << OrganizationRow("o1", "acme") >>
    /\ req = [ r \in Reqs |-> IdleReq ]
    /\ ctx = None
    /\ query = NoQuery
    /\ token = None
    /\ decoded = None

\* the request ends with this response
Respond(r, stage, response, logged) ==
    req' = [ req EXCEPT ![r].pc = "responded",
                        ![r].response = response,
                        ![r].trace = Append(@, stage),
                        ![r].log = @ \cup logged ]

Ok(detail) == [ ok |-> TRUE, status_code |-> 200, detail |-> detail ]

\* get_current_user with HTTPBearer left to refuse missing credentials itself
authenticate_auto_error(credentials) ==
    IF credentials = None
    THEN [ ok |-> FALSE, payload |-> None,
           response |-> HTTPException(403, "Not authenticated", FALSE) ]
    ELSE LET d == decode_token(credentials)
         IN IF ~d.ok
            THEN [ ok |-> FALSE, payload |-> None, response |-> d ]
            ELSE IF ~get_user_id(d.payload).ok
            THEN [ ok |-> FALSE, payload |-> d.payload, response |-> get_user_id(d.payload) ]
            ELSE IF ~get_user_email(d.payload).ok
            THEN [ ok |-> FALSE, payload |-> d.payload, response |-> get_user_email(d.payload) ]
            ELSE [ ok |-> TRUE, payload |-> d.payload, response |-> None ]

\* get_current_user up to the first store call: the credentials check,
\* decode_token, get_user_id, get_user_email; an HTTPException raised by
\* these passes through the except HTTPException clause unchanged
authenticate(credentials) ==
    IF credentials = None
    THEN [ ok |-> FALSE, payload |-> None,
           response |-> HTTPException(401, "Bearer authentication required", TRUE) ]
    ELSE LET d == decode_token(credentials)
         IN IF ~d.ok
            THEN [ ok |-> FALSE, payload |-> None, response |-> d ]
            ELSE IF ~get_user_id(d.payload).ok
            THEN [ ok |-> FALSE, payload |-> d.payload, response |-> get_user_id(d.payload) ]
            ELSE IF ~get_user_email(d.payload).ok
            THEN [ ok |-> FALSE, payload |-> d.payload, response |-> get_user_email(d.payload) ]
            ELSE [ ok |-> TRUE, payload |-> d.payload, response |-> None ]

\* what authenticate makes of the credentials a request may carry
AuthOutcomes == { authenticate(credentials) : credentials \in { None } \cup Tokens }

\* a request arrives, with or without credentials, and is authenticated
VerifyToken(r) ==
    /\ req[r].pc = "idle"
    /\ \E a \in AuthOutcomes :
        req' = [ req EXCEPT ![r].pc = IF a.ok THEN "load_profile" ELSE "responded",
                            ![r].payload = a.payload,
                            ![r].response = a.response,
                            ![r].trace = Append(@, "verify") ]
    /\ UNCHANGED <<organization_memberships, organizations, evalVars, tokenVars>>

\* str(e) of the exceptions a store call raises: the store cannot be reached,
\* or a row does not fit its model
StoreErrors == { "connection refused", "validation error" }

\* logging.error(f"Error in get_current_user: {str(e)}")
log_line(e) ==
    IF e = "connection refused"
    THEN "Error in get_current_user: connection refused"
    ELSE "Error in get_current_user: validation error"

\* the except Exception clause answering with str(e)
authentication_failed_with_error_text(e) == HTTPException(401, e, FALSE)

\* the except Exception clause of get_current_user
authentication_failed(e) == HTTPException(401, "Authentication failed", FALSE)

\* the user_profiles read: the store call may raise (unreachable store, a
\* malformed row failing UserProfile(**data), .single() finding no row), which
\* the except Exception clause logs and turns into the generic 401
LoadProfile(r) ==
    /\ req[r].pc = "load_profile"
    /\ \E store_ok \in BOOLEAN :
        LET rows == { p \in user_profiles : p.id = req[r].payload.sub }
        IN IF ~store_ok
           THEN \E e \in StoreErrors :
                    Respond(r, "load_profile", authentication_failed(e), { log_line(e) })
           ELSE IF rows = {}
           THEN Respond(r, "load_profile",
                        HTTPException(401, "User profile not found", FALSE), {})
           ELSE req' = [ req EXCEPT ![r].pc = "load_memberships",
                                    ![r].profile = CHOOSE p \in rows : TRUE,
                                    ![r].trace = Append(@, "load_profile") ]
    /\ UNCHANGED <<organization_memberships, organizations, evalVars, tokenVars>>

\* the organization_memberships read and the construction of the UserContext
LoadMemberships(r) ==
    /\ req[r].pc = "load_memberships"
    /\ \E store_ok \in BOOLEAN :
        IF ~store_ok
        THEN \E e \in StoreErrors :
                Respond(r, "load_memberships", authentication_failed(e), { log_line(e) })
        ELSE req' = [ req EXCEPT
                ![r].pc = "handler",
                ![r].user = [ id |-> req[r].payload.sub,
                              email |-> req[r].payload.email,
                              memberships |->
                                  select_active_memberships(organization_memberships,
                                                            req[r].payload.sub) ],
                ![r].trace = Append(@, "load_memberships") ]
    /\ UNCHANGED <<organization_memberships, organizations, evalVars, tokenVars>>

\* the memberships of the caller read again from the store
live_memberships(r) ==
    select_active_memberships(organization_memberships, req[r].user.id)

\* current_user.memberships: the handlers evaluate the UserContext that
\* Depends(get_current_user) built for this request
current_user_memberships(r) == req[r].user.memberships

\* the permission check without the minimum-role test
access_denied_membership_only(memberships, org_id) ==
    /\ ~has_saas_role(memberships)
    /\ get_membership_for_organization(memberships, org_id) = None

\* the permission check of the members and invite handlers: no platform role,
\* and no membership of the organization or one below organization_admin
access_denied(memberships, org_id) ==
    /\ ~has_saas_role(memberships)
    /\ \/ get_membership_for_organization(memberships, org_id) = None
       \/ ~has_minimum_role_in_organization(memberships, org_id, "organization_admin")

\* GET /auth/me
GetMe(r) ==
    /\ req[r].pc = "handler"
    /\ req' = [ req EXCEPT ![r].pc = "responded",
                           ![r].endpoint = "get_me",
                           ![r].response = Ok("profile and memberships"),
                           ![r].trace = Append(@, "handler") ]
    /\ UNCHANGED <<organization_memberships, organizations, evalVars, tokenVars>>

\* GET /organizations/{org_id}/members: the permission check, then the read of
\* the organization's active membership rows; a store error is not caught
GetOrganizationMembers(r) ==
    /\ req[r].pc = "handler"
    /\ \E org_id \in Orgs, store_ok \in BOOLEAN :
        IF access_denied(current_user_memberships(r), org_id)
        THEN /\ store_ok
             /\ req' = [ req EXCEPT ![r].pc = "responded",
                                    ![r].endpoint = "get_organization_members",
                                    ![r].org_id = org_id,
                                    ![r].response = HTTPException(403, "Access denied", FALSE),
                                    ![r].trace = Append(@, "authorize") ]
        ELSE req' = [ req EXCEPT
                ![r].pc = "responded",
                ![r].endpoint = "get_organization_members",
                ![r].org_id = org_id,
                ![r].ops = @ \cup { "select organization_memberships" },
                ![r].response =
                    IF store_ok
                    THEN [ ok |-> TRUE, status_code |-> 200,
                           detail |-> SelectSeq(organization_memberships,
                                LAMBDA row : row.organization_id = org_id /\ row.is_active) ]
                    ELSE HTTPException(500, "Internal Server Error", FALSE),
                ![r].trace = @ \o << "authorize", "handler" >> ]
    /\ UNCHANGED <<organization_memberships, organizations, evalVars, tokenVars>>

InviteEmails == { "u1@x.com", "u2@x.com", "nobody@x.com" }

\* the roles an invite request of the model asks for: one below the level
\* the permission check asks for, that level, and a platform role
InviteRoles == { "organization_user", "organization_admin", "saas_admin" }

\* POST /organizations/{org_id}/invite, first part: the permission check and
\* the lookup of the invited user's profile by email
InviteLookupUser(r) ==
    /\ req[r].pc = "handler"
    /\ \E org_id \in Orgs, email \in InviteEmails, role \in InviteRoles, store_ok \in BOOLEAN :
        IF access_denied(current_user_memberships(r), org_id)
        THEN /\ store_ok /\ email = "nobody@x.com" /\ role = "organization_user"
             /\ req' = [ req EXCEPT ![r].pc = "responded",
                                    ![r].endpoint = "invite_user_to_organization",
                                    ![r].org_id = org_id,
                                    ![r].response = HTTPException(403, "Access denied", FALSE),
                                    ![r].trace = Append(@, "authorize") ]
        ELSE LET found == { p \in user_profiles : p.email = email }
                 started == [ req[r] EXCEPT
                                !.endpoint = "invite_user_to_organization",
                                !.org_id = org_id,
                                !.ops = @ \cup { "select user_profiles" },
                                !.trace = @ \o << "authorize", "handler" >> ]
             IN IF ~store_ok
                THEN /\ email = "nobody@x.com" /\ role = "organization_user"
                     /\ req' = [ req EXCEPT ![r] = [ started EXCEPT
                            !.pc = "responded",
                            !.response = HTTPException(400, "store error", FALSE),
                            !.log = @ \cup { "Error inviting user" } ] ]
                ELSE IF found = {}
                THEN /\ role = "organization_user"
                     /\ req' = [ req EXCEPT ![r] = [ started EXCEPT
                            !.pc = "responded",
                            !.response = HTTPException(400,
                                "User not found. User must register first.", FALSE) ] ]
                ELSE req' = [ req EXCEPT ![r] = [ started EXCEPT
                        !.pc = "invite_check_existing",
                        !.invite = [ user_id |-> (CHOOSE p \in found : TRUE).id,
                                     role |-> role ] ] ]
    /\ UNCHANGED <<organization_memberships, organizations, evalVars, tokenVars>>

\* invite, second part: the read of the user's membership rows in the organization
InviteCheckExisting(r) ==
    /\ req[r].pc = "invite_check_existing"
    /\ \E store_ok \in BOOLEAN :
        LET existing == select_existing(organization_memberships,
                                        req[r].invite.user_id, req[r].org_id)
        IN IF ~store_ok
           THEN req' = [ req EXCEPT
                    ![r].pc = "responded",
                    ![r].ops = @ \cup { "select organization_memberships" },
                    ![r].response = HTTPException(400, "store error", FALSE),
                    ![r].log = @ \cup { "Error inviting user" } ]
           ELSE IF existing # << >>
           THEN req' = [ req EXCEPT
                    ![r].pc = "responded",
                    ![r].ops = @ \cup { "select organization_memberships" },
                    ![r].response = HTTPException(400, "User already a member", FALSE) ]
           ELSE req' = [ req EXCEPT
                    ![r].pc = "invite_insert",
                    ![r].ops = @ \cup { "select organization_memberships" } ]
    /\ UNCHANGED <<organization_memberships, organizations, evalVars, tokenVars>>

\* invite, third part: the insert of the membership row
InviteInsert(r) ==
    /\ req[r].pc = "invite_insert"
    /\ Len(organization_memberships) < MaxRows
    /\ \E store_ok \in BOOLEAN :
        IF ~store_ok
        THEN /\ req' = [ req EXCEPT
                    ![r].pc = "responded",
                    ![r].ops = @ \cup { "insert organization_memberships" },
                    ![r].response = HTTPException(400, "store error", FALSE),
                    ![r].log = @ \cup { "Error inviting user" } ]
             /\ UNCHANGED organization_memberships
        ELSE /\ organization_memberships' = Append(organization_memberships,
                    MembershipRow(RowIds[Len(organization_memberships) + 1],
                                  req[r].invite.user_id, req[r].org_id,
                                  req[r].invite.role, TRUE, req[r].user.id))
             /\ req' = [ req EXCEPT
                    ![r].pc = "responded",
                    ![r].ops = @ \cup { "insert organization_memberships" },
                    ![r].response = Ok("User invited successfully") ]
    /\ UNCHANGED <<organizations, evalVars, tokenVars>>

\* str(e) of HTTPException(400, "Failed to create organization"), which the
\* except Exception clause of create_organization catches as well; what it
\* reads depends on the release of the framework
StrOfFailedToCreate == { "400: Failed to create organization", "" }

\* POST /organizations, first part: no permission check; the insert of the
\* organization row and the construction of Organization(**org_data)
CreateOrganizationInsertOrg(r) ==
    /\ req[r].pc = "handler"
    /\ Len(organizations) < MaxOrgs
    /\ LET id == OrgIds[Len(organizations) + 1]
           inserted == Append(organizations, OrganizationRow(id, "new org"))
           started == [ req[r] EXCEPT
                          !.endpoint = "create_organization",
                          !.ops = @ \cup { "insert organizations" },
                          !.trace = Append(@, "handler") ]
           failed(detail) == [ started EXCEPT
                                 !.pc = "responded",
                                 !.response = HTTPException(400, detail, FALSE),
                                 !.log = @ \cup { "Error creating organization" } ]
       IN \/ \* the insert raises
             /\ req' = [ req EXCEPT ![r] = failed("store error") ]
             /\ UNCHANGED organizations
          \/ \* the insert returns no data
             /\ \E detail \in StrOfFailedToCreate : req' = [ req EXCEPT ![r] = failed(detail) ]
             /\ UNCHANGED organizations
          \/ \* the row is inserted, Organization(**org_data) raises; the except
             \* clause logs and raises, the row stays
             /\ req' = [ req EXCEPT ![r] = [ failed("validation error") EXCEPT !.org_id = id ] ]
             /\ organizations' = inserted
          \/ \* the row is inserted
             /\ req' = [ req EXCEPT ![r] = [ started EXCEPT
                            !.pc = "create_insert_membership", !.org_id = id ] ]
             /\ organizations' = inserted
    /\ UNCHANGED <<organization_memberships, evalVars, tokenVars>>

\* create_organization, second part: the insert of the creator's
\* organization_owner membership
CreateOrganizationInsertMembership(r) ==
    /\ req[r].pc = "create_insert_membership"
    /\ Len(organization_memberships) < MaxRows
    /\ \E store_ok \in BOOLEAN :
        IF ~store_ok
        THEN \* the except clause logs and raises; the organization row stays
             /\ req' = [ req EXCEPT
                    ![r].pc = "responded",
                    ![r].ops = @ \cup { "insert organization_memberships" },
                    ![r].response = HTTPException(400, "store error", FALSE),
                    ![r].log = @ \cup { "Error creating organization" } ]
             /\ UNCHANGED <<organizations, organization_memberships>>
        ELSE /\ organization_memberships' = Append(organization_memberships,
                    MembershipRow(RowIds[Len(organization_memberships) + 1],
                                  req[r].user.id, req[r].org_id,
                                  "organization_owner", TRUE, req[r].user.id))
             /\ req' = [ req EXCEPT
                    ![r].pc = "responded",
                    ![r].ops = @ \cup { "insert organization_memberships" },
                    ![r].response = Ok("organization") ]
             /\ UNCHANGED organizations
    /\ UNCHANGED <<evalVars, tokenVars>>

\* the response is sent and the request's locals are dropped
Finish(r) ==
    /\ req[r].pc = "responded"
    /\ req' = [ req EXCEPT ![r] = IdleReq ]
    /\ UNCHANGED <<organization_memberships, organizations, evalVars, tokenVars>>

Next ==
    \/ \E r \in Reqs : VerifyToken(r)
    \/ \E r \in Reqs : LoadProfile(r)
    \/ \E r \in Reqs : LoadMemberships(r)
    \/ \E r \in Reqs : GetMe(r)
    \/ \E r \in Reqs : GetOrganizationMembers(r)
    \/ \E r \in Reqs : InviteLookupUser(r)
    \/ \E r \in Reqs : InviteCheckExisting(r)
    \/ \E r \in Reqs : InviteInsert(r)
    \/ \E r \in Reqs : Finish(r)

Spec == Init /\ [][Next]_vars

(***************************************************************************)
(* SpecOrg: the requests of Spec, and create_organization among them.      *)
(***************************************************************************)
NextOrg ==
    \/ \E r \in Reqs : VerifyToken(r)
    \/ \E r \in Reqs : LoadProfile(r)
    \/ \E r \in Reqs : LoadMemberships(r)
    \/ \E r \in Reqs : GetMe(r)
    \/ \E r \in Reqs : GetOrganizationMembers(r)
    \/ \E r \in Reqs : InviteLookupUser(r)
    \/ \E r \in Reqs : InviteCheckExisting(r)
    \/ \E r \in Reqs : InviteInsert(r)
    \/ \E r \in Reqs : CreateOrganizationInsertOrg(r)
    \/ \E r \in Reqs : CreateOrganizationInsertMembership(r)
    \/ \E r \in Reqs : Finish(r)

SpecOrg == Init /\ [][NextOrg]_vars

(***************************************************************************)
(* SpecToken: a token is drawn, then decode_token is applied to it.        *)
(***************************************************************************)
InitToken ==
    /\ token \in Tokens
    /\ decoded = None
    /\ ctx = None
    /\ query = NoQuery
    /\ organization_memberships = << >>
    /\ organizations = << >>
    /\ req = << >>

DecodeToken ==
    /\ decoded = None
    /\ decoded' = decode_token(token)
    /\ UNCHANGED <<token, evalVars, storeVars>>

NextToken == DecodeToken

SpecToken == InitToken /\ [][NextToken]_vars

(***************************************************************************)
(* Claims about decode_token (checked under SpecToken).                    *)
(***************************************************************************)
TokenInvalid == HTTPException(401, "Invalid authentication token", TRUE)
TokenExpired == HTTPException(401, "Token has expired", TRUE)

WrongSecret == token.wellformed /\ token.key # "supabase_jwt_secret"
WrongAudience == token.wellformed /\ token.aud # "authenticated"
ExpiryInPast == token.wellformed /\ token.exp = "past"

\* C7 (as stated): every token signed with a different secret or carrying a
\* different audience, whatever its expiry, fails with TokenInvalid.
C7_WrongSecretOrAudienceIsInvalid ==
    (decoded # None /\ (WrongSecret \/ WrongAudience)) => decoded = TokenInvalid

\* C7 (amended): every token signed with a different secret fails with
\* TokenInvalid whatever its expiry and audience; a token signed with the
\* right secret that carries a different (or no) audience fails with
\* TokenInvalid unless its expiry is in the past, in which case it fails
\* with TokenExpired.
C7_WrongSecretOrUnexpiredWrongAudienceIsInvalid ==
    decoded # None =>
        /\ WrongSecret => decoded = TokenInvalid
        /\ (WrongAudience /\ ~WrongSecret /\ ~ExpiryInPast) => decoded = TokenInvalid
        /\ (WrongAudience /\ ~WrongSecret /\ ExpiryInPast) => decoded = TokenExpired

\* an unexpired token of the right secret with another audience has been
\* refused as invalid
C7_Witness ==
    /\ decoded = TokenInvalid
    /\ token.wellformed
    /\ token.key = secret_key
    /\ token.aud = "other_audience"
    /\ token.exp = "future"

\* C8 (as stated): every token whose expiry is in the past, whatever its
\* signature and audience, fails with TokenExpired.
C8_ExpiredIsTokenExpired ==
    (decoded # None /\ ExpiryInPast) => decoded = TokenExpired

\* C8 (amended): every token signed with the right secret whose expiry is in
\* the past, whatever its audience, fails with TokenExpired, which differs
\* from TokenInvalid and carries no claims; an expired token signed with a
\* different secret fails with TokenInvalid.
C8_ExpiredWithRightSecretIsTokenExpired ==
    /\ TokenExpired # TokenInvalid
    /\ decoded # None =>
        /\ (ExpiryInPast /\ ~WrongSecret) => decoded = TokenExpired /\ ~decoded.ok
        /\ (ExpiryInPast /\ WrongSecret) => decoded = TokenInvalid

\* an expired token of the right secret with another audience has been
\* refused as expired
C8_Witness ==
    /\ decoded = TokenExpired
    /\ token.wellformed
    /\ token.key = secret_key
    /\ token.aud = "other_audience"

(***************************************************************************)
(* Claims about requests (checked under Spec).                             *)
(***************************************************************************)
\* the stages of get_current_user, in the order of the code
AuthStages == << "verify", "load_profile", "load_memberships" >>

\* the request ended inside get_current_user
AuthFailed(r) == req[r].pc = "responded" /\ Len(req[r].trace) <= Len(AuthStages)

\* the handler of the request, or the authorization check in it, has run
HandlerEntered(r) ==
    \/ req[r].endpoint # ""
    \/ req[r].ops # {}
    \/ req[r].invite # None
    \/ req[r].pc \in { "invite_check_existing", "invite_insert" }
    \/ \E i \in 1..Len(req[r].trace) : req[r].trace[i] \in { "authorize", "handler" }

\* C5: the stages of a request run in the order token verification, profile
\* and membership hydration, then authorization and handler; a request whose
\* credentials are absent or whose verification or hydration fails ends with
\* 401 without any later stage, authorization check or handler having run,
\* and the handler never sees anything but a completely built snapshot.
C5_StagesInOrderFailuresEndWith401 ==
    \A r \in Reqs :
        /\ \A i \in 1..Len(req[r].trace) :
            IF i <= Len(AuthStages)
            THEN req[r].trace[i] = AuthStages[i]
            ELSE req[r].trace[i] \in { "authorize", "handler" }
        /\ req[r].profile # None => req[r].payload # None
        /\ req[r].user # None =>
            /\ req[r].profile # None
            /\ req[r].user.id = req[r].profile.id
            /\ Len(req[r].trace) >= Len(AuthStages)
        /\ HandlerEntered(r) => req[r].user # None
        /\ AuthFailed(r) =>
            /\ req[r].response.status_code = 401
            /\ req[r].user = None
            /\ ~HandlerEntered(r)

\* requests have ended with 401 at each of the three stages and without
\* credentials, and one has reached its handler
C5_Witness ==
    /\ AuthFailed("r1")
    /\ req["r1"].trace = << "verify", "load_profile", "load_memberships" >>
    /\ req["r2"].pc = "responded"
    /\ req["r2"].endpoint = "get_organization_members"
    /\ req["r2"].response.status_code = 200

\* the memberships of the snapshot give the caller no platform role and,
\* for org_id, no active membership or a first one below organization_admin
BelowOrganizationAdmin(memberships, org_id) ==
    /\ \A i \in 1..Len(memberships) : memberships[i].role \notin PlatformRoles
    /\ \A i \in 1..Len(memberships) :
        IsFirstMatch(memberships, i, org_id) =>
            Rank(memberships[i].role) < Rank("organization_admin")

\* C6: on the members and invite endpoints a hydrated caller without platform
\* role whose membership in the requested organization ranks below
\* organization_admin, or who has no active membership in it, is refused with
\* 403 (not 401), and the request neither reads nor inserts membership rows.
C6_LowRankIsForbiddenAndTouchesNothing ==
    \A r \in Reqs :
        ( /\ req[r].endpoint \in { "get_organization_members",
                                   "invite_user_to_organization" }
          /\ req[r].user # None
          /\ BelowOrganizationAdmin(req[r].user.memberships, req[r].org_id) )
        => /\ req[r].pc = "responded"
           /\ req[r].response.status_code = 403
           /\ req[r].ops = {}

\* a caller who is organization_user of o1 has been refused on the invite
\* endpoint of o1
C6_Witness ==
    \E r \in Reqs :
        /\ req[r].pc = "responded"
        /\ req[r].endpoint = "invite_user_to_organization"
        /\ req[r].org_id = "o1"
        /\ req[r].user # None
        /\ \E i \in 1..Len(req[r].user.memberships) :
            /\ req[r].user.memberships[i].organization_id = "o1"
            /\ req[r].user.memberships[i].role = "organization_user"
        /\ req[r].response.status_code = 403

\* the claim is absent or empty
Missing(claim) == claim = NoClaim \/ claim = ""

\* C9: a token that passes signature, audience and expiry validation but
\* whose subject or email claim is missing or empty is refused with 401
\* before any store read; no snapshot with an empty subject id or an empty
\* email is ever built.
C9_MissingSubjectOrEmailIsRejected ==
    \A r \in Reqs :
        /\ ( /\ req[r].payload # None
             /\ Missing(req[r].payload.sub) \/ Missing(req[r].payload.email) )
           => /\ req[r].pc = "responded"
              /\ req[r].response.status_code = 401
              /\ req[r].trace = << "verify" >>
              /\ req[r].profile = None
              /\ req[r].user = None
        /\ req[r].user # None =>
            /\ ~Missing(req[r].user.id)
            /\ ~Missing(req[r].user.email)

\* a validated token with a subject and an empty email has been refused
C9_Witness ==
    \E r \in Reqs :
        /\ req[r].pc = "responded"
        /\ req[r].payload # None
        /\ req[r].payload.sub = "u1"
        /\ req[r].payload.email = ""
        /\ req[r].response.status_code = 401

\* C10: two requests that fail in the authentication stages, for whatever
\* reasons, get the same client-visible response.
C10_AuthFailuresIndistinguishable ==
    \A r1, r2 \in Reqs :
        (AuthFailed(r1) /\ AuthFailed(r2)) => req[r1].response = req[r2].response

\* a user_profiles row exists for the subject
HasProfile(sub) == \E p \in user_profiles : p.id = sub

\* memberships holds exactly the active rows of the table for the subject
IsActiveRowsOf(memberships, rows, sub) ==
    LET idx == { i \in 1..Len(rows) : rows[i].user_id = sub /\ rows[i].is_active }
    IN /\ Len(memberships) = Cardinality(idx)
       /\ { memberships[k].id : k \in 1..Len(memberships) } = { rows[i].id : i \in idx }
       /\ \A k \in 1..Len(memberships) : memberships[k].is_active

\* C11: with a verified token and a store that answers, hydration succeeds
\* iff a profile row exists for the subject: without one the request ends
\* with 401 (never 404); with one the snapshot is built from the subject's
\* active membership rows, however many, the empty list when there are none.
C11_HydrationSucceedsIffProfileExists ==
    [][ \A r \in Reqs :
          /\ ( /\ req[r].pc = "load_profile"
               /\ req'[r].pc # "load_profile"
               /\ req'[r].log = {} )
             => IF HasProfile(req[r].payload.sub)
                THEN /\ req'[r].pc = "load_memberships"
                     /\ req'[r].profile.id = req[r].payload.sub
                ELSE /\ req'[r].pc = "responded"
                     /\ req'[r].response.status_code = 401
                     /\ req'[r].user = None
          /\ ( /\ req[r].pc = "load_memberships"
               /\ req'[r].pc # "load_memberships"
               /\ req'[r].log = {} )
             => /\ req'[r].pc = "handler"
                /\ req'[r].user # None
                /\ req'[r].user.id = req[r].payload.sub
                /\ IsActiveRowsOf(req'[r].user.memberships, organization_memberships,
                                  req[r].payload.sub)
      ]_vars

\* u2, whose only membership row is deactivated, is hydrated with an empty
\* membership list, and u3, who has no profile row, is refused
C11_Witness ==
    \E r1, r2 \in Reqs :
        /\ req[r1].pc = "handler"
        /\ req[r1].user.id = "u2"
        /\ req[r1].user.memberships = << >>
        /\ \E i \in 1..Len(organization_memberships) :
            organization_memberships[i].user_id = "u2"
        /\ req[r2].pc = "responded"
        /\ req[r2].payload # None
        /\ req[r2].payload.sub = "u3"
        /\ req[r2].trace = << "verify", "load_profile" >>
        /\ req[r2].log = {}
        /\ req[r2].response.status_code = 401

\* C12: a failure while reading or parsing the profile row or the membership
\* rows ends the request with 401 and the fixed detail 'Authentication
\* failed'; the text of the store error is in the log only, and no snapshot
\* is returned.
C12_StoreFailureIsGeneric401 ==
    \A r \in Reqs :
        \A e \in StoreErrors :
            log_line(e) \in req[r].log =>
                /\ req[r].pc = "responded"
                /\ req[r].response.status_code = 401
                /\ req[r].response.detail = "Authentication failed"
                /\ req[r].response.detail \notin StoreErrors
                /\ req[r].user = None
                /\ ~HandlerEntered(r)

\* the membership read has failed on a malformed row after the profile read
\* succeeded
C12_Witness ==
    \E r \in Reqs :
        /\ req[r].pc = "responded"
        /\ req[r].profile # None
        /\ req[r].trace = << "verify", "load_profile", "load_memberships" >>
        /\ req[r].log = { "Error in get_current_user: validation error" }
        /\ req[r].response.detail = "Authentication failed"

\* the request holds a snapshot and has not been answered and dropped
Hydrated(r) == req[r].user # None

\* this step of the request evaluates the permission check of the members or
\* invite endpoint
Authorizes(r) ==
    /\ req[r].pc = "handler"
    /\ req'[r].endpoint \in { "get_organization_members", "invite_user_to_organization" }

\* C14: within one request the authorization answers depend on the snapshot
\* built at hydration only: the snapshot stays as built until the request
\* is over, whatever other requests write to the store meanwhile; the
\* permission check refuses exactly when the snapshot (not the store) gives
\* the caller no platform role and no active membership of at least
\* organization_admin in the organization; and the check writes nothing to
\* the store.
C14_AnswersDependOnSnapshotOnly ==
    [][ \A r \in Reqs :
          /\ (Hydrated(r) /\ req'[r].pc # "idle") => req'[r].user = req[r].user
          /\ Authorizes(r) =>
                /\ (req'[r].trace = Append(req[r].trace, "authorize"))
                       <=> BelowOrganizationAdmin(req[r].user.memberships, req'[r].org_id)
                /\ (req'[r].trace = Append(req[r].trace, "authorize"))
                       <=> ( /\ req'[r].pc = "responded"
                             /\ req'[r].response = HTTPException(403, "Access denied", FALSE) )
                /\ organization_memberships' = organization_memberships ]_vars

\* u2 was refused on the members endpoint of o1 from a snapshot without
\* memberships, although the store by then holds an active organization_admin
\* membership of u2 in o1
C14_Witness ==
    \E r \in Reqs :
        /\ req[r].pc = "responded"
        /\ req[r].endpoint = "get_organization_members"
        /\ req[r].org_id = "o1"
        /\ req[r].user # None
        /\ req[r].user.id = "u2"
        /\ req[r].user.memberships = << >>
        /\ req[r].response.status_code = 403
        /\ \E i \in 1..Len(organization_memberships) :
            /\ organization_memberships[i].user_id = "u2"
            /\ organization_memberships[i].organization_id = "o1"
            /\ organization_memberships[i].role = "organization_admin"
            /\ organization_memberships[i].is_active

(***************************************************************************)
(* Claims about the writing handlers.                                      *)
(***************************************************************************)
\* the request has been answered on this endpoint
Answered(r, endpoint) == req[r].pc = "responded" /\ req[r].endpoint = endpoint

\* the positions of the membership rows linking the user to the organization
RowsOf(user_id, org_id) ==
    { i \in 1..Len(organization_memberships) :
        /\ organization_memberships[i].user_id = user_id
        /\ organization_memberships[i].organization_id = org_id }

\* C15 (checked under SpecOrg): after any interleaving of invite and
\* create_organization requests the store holds at most one membership row
\* per (user id, organization id) pair, and an invite answered 'User invited
\* successfully' leaves exactly one row for the invited user in the
\* organization, also when two such invites run concurrently.
C15_OneMembershipRowPerUserAndOrganization ==
    /\ \A i, j \in 1..Len(organization_memberships) :
        ( /\ organization_memberships[i].user_id = organization_memberships[j].user_id
          /\ organization_memberships[i].organization_id
                 = organization_memberships[j].organization_id )
        => i = j
    /\ \A r \in Reqs :
        ( /\ Answered(r, "invite_user_to_organization")
          /\ req[r].response.status_code = 200 )
        => Cardinality(RowsOf(req[r].invite.user_id, req[r].org_id)) = 1

\* C16 (checked under Spec): an invite answered 'User invited successfully'
\* has created a membership whose role ranks no higher than a role the
\* inviting caller's snapshot holds in that organization or as a platform
\* role.
C16_InviteNeverExceedsInvitersRank ==
    \A r \in Reqs :
        ( /\ Answered(r, "invite_user_to_organization")
          /\ req[r].response.status_code = 200 )
        => \E i \in 1..Len(req[r].user.memberships) :
            /\ \/ req[r].user.memberships[i].organization_id = req[r].org_id
               \/ req[r].user.memberships[i].role \in PlatformRoles
            /\ Rank(req[r].user.memberships[i].role) >= Rank(req[r].invite.role)

\* C17 (checked under SpecOrg): create_organization is all-or-nothing: answered
\* with success, the store holds the new organization row and an
\* organization_owner membership of the caller in it; answered with an error,
\* the store holds no organization row created by the request.
C17_CreateOrganizationIsAllOrNothing ==
    \A r \in Reqs :
        Answered(r, "create_organization") =>
            IF req[r].response.status_code = 200
            THEN /\ \E i \in 1..Len(organizations) : organizations[i].id = req[r].org_id
                 /\ \E i \in RowsOf(req[r].user.id, req[r].org_id) :
                        organization_memberships[i].role = "organization_owner"
            ELSE \A i \in 1..Len(organizations) : organizations[i].id # req[r].org_id

=============================================================================
